---- MODULE Spec2Model ----
(***************************************************************************)
(* Monte Carlo Tree Search for tic-tac-toe (src/main.py).                  *)
(*                                                                         *)
(* Representation.                                                         *)
(*   Turn        the enum value: 1 (Turn.x) or 2 (Turn.o); 0 is None       *)
(*   board       a 3-tuple of 3-tuples of cell values 0, 1, 2; the Python  *)
(*               cell board[x][y] (x, y in 0..2) is board[x+1][y+1] here   *)
(*   action      <<x, y>> with x, y in 0..2, as in the source              *)
(*   State       [board, turn]                                             *)
(*   Node        [parent, state, simulations, wins2, children]; a Node     *)
(*               object is named by the sequence of actions leading to it  *)
(*               from the root the search started at; parent and the       *)
(*               entries of children are such names (NoNode is None,       *)
(*               NoChildren is the children field left at None).  wins2 is *)
(*               twice the Python field wins, so that the increments       *)
(*               0, 0.5 and 1 are the integers 0, 1 and 2.                 *)
(***************************************************************************)
EXTENDS Integers, Sequences, FiniteSets, TLC

VARIABLES
    nodes,          \* the Node objects reachable from tree.root, by name
    root,           \* tree.root: the name of the root node
    pc,             \* "mcts": at the head of mcts's for loop; "rollout": in
                    \* random_rollout's playout loop; "play": at the head of
                    \* play_game's loop; "advance": at line 152; "done": the
                    \* loop was left; "error": play_game raised an exception;
                    \* "fault": mcts raised an exception;
                    \* "call": no tree, a function is called in isolation
    steps,          \* iterations of mcts's for loop completed
    max_steps,      \* mcts's parameter max_steps
    curr_node,      \* random_rollout's parameter node
    rollout_state,  \* random_rollout's local state
    initial_turn,   \* random_rollout's local initial_turn
    current_state,  \* play_game's local current_state
    play_action,    \* play_game's local action
    declared,       \* what play_game printed when it left its loop
    rollouts,       \* history: how many rollouts started at each node
    last,           \* history: the step just taken
    in_state,       \* state argument of a function called in isolation
    in_action,      \* action argument of that call
    call,           \* the function called in isolation, "" before the call
    ret,            \* its return value
    store,          \* Python list objects by address (aliasing analysis)
    in_ref,         \* a State whose board is the address of a list of rows
    out_refs        \* the States apply_action returned, boards by address

treeVars == <<nodes, root, pc, steps, max_steps, curr_node, rollout_state, initial_turn,
              current_state, play_action, declared, rollouts, last>>
callVars == <<in_state, in_action, call, ret, store, in_ref, out_refs>>
vars == <<treeVars, callVars>>

\* None where a Turn is expected (the winner of check_win_conditions)
NoTurn == 0

\* Turn.x.value
TurnX == 1
\* Turn.o.value
TurnO == 2

\* range(3)
Range3 == 0..2

EmptyBoard == <<<<0, 0, 0>>, <<0, 0, 0>>, <<0, 0, 0>>>>

\* [x, y] for x in range(3) for y in range(3), in that order
AllCells ==
    <<<<0, 0>>, <<0, 1>>, <<0, 2>>,
      <<1, 0>>, <<1, 1>>, <<1, 2>>,
      <<2, 0>>, <<2, 1>>, <<2, 2>>>>

Cell(board, a) == board[a[1] + 1][a[2] + 1]

\* get_valid_actions with range(2) for the columns
get_valid_actions_two_columns(state) ==
    LET IsEmpty(a) == a[2] < 2 /\ Cell(state.board, a) = 0
    IN  SelectSeq(AllCells, IsEmpty)

get_valid_actions(state) ==
    LET IsEmpty(a) == Cell(state.board, a) = 0
    IN  SelectSeq(AllCells, IsEmpty)

\* a move that passes the turn and leaves the board as it is
apply_action_without_mark(action, state) ==
    [board |-> state.board, turn |-> IF state.turn = TurnX THEN TurnO ELSE TurnX]

\* a move that writes the mark and leaves the turn with the mover
apply_action_same_turn(action, state) ==
    [board |-> [state.board EXCEPT ![action[1] + 1][action[2] + 1] = state.turn],
     turn |-> state.turn]

\* Lines 36-41: the mover's mark written at the action's cell of a copy of
\* the board, and the turn passed
apply_action(action, state) ==
    LET x == action[1]
        y == action[2]
        new_board == [state.board EXCEPT ![x + 1][y + 1] = state.turn]
        new_turn == IF state.turn = TurnX THEN TurnO ELSE TurnX
    IN  [board |-> new_board, turn |-> new_turn]

\* rows + columns + the two diagonals, as a sequence of 8 triples
Lines(board) ==
    board
    \o [c \in 1..3 |-> <<board[1][c], board[2][c], board[3][c]>>]
    \o << <<board[1][1], board[2][2], board[3][3]>>,
          <<board[1][3], board[2][2], board[3][1]>> >>

check_win_conditions(state) ==
    LET lines == Lines(state.board)
        t == state.turn
    IN  IF \E i \in 1..Len(lines) : lines[i] = <<t, t, t>> THEN t ELSE NoTurn

(***************************************************************************)
(* The search tree                                                         *)
(***************************************************************************)

\* None where a Node is expected (the parent of a root)
NoNode == << <<3, 3>> >>

\* the children field of a Node that was never expanded (None), as opposed
\* to the empty list [] of an expanded Node whose board is full
NoChildren == << NoNode >>

\* None where a State is expected (a local not yet assigned)
NoState == [board |-> EmptyBoard, turn |-> NoTurn]

\* None where an action is expected
NoAction == <<3, 3>>

\* Python truth value of a children field: None and [] are false
Truthy(children) == children # NoChildren /\ children # <<>>

\* Node(parent=..., state=..., simulations=..., wins=...), children defaulted
Node(parent, st, simulations, wins2) ==
    [parent |-> parent, state |-> st, simulations |-> simulations,
     wins2 |-> wins2, children |-> NoChildren]

IsPrefix(p, q) == Len(p) <= Len(q) /\ SubSeq(q, 1, Len(p)) = p

\* expand whose children are created with parent=None
expand_without_parent(ns, node) ==
    LET valid_actions == get_valid_actions(ns[node].state)
        children == [i \in 1..Len(valid_actions) |-> Append(node, valid_actions[i])]
        kept == {m \in DOMAIN ns : ~(IsPrefix(node, m) /\ m # node)}
        new == {children[i] : i \in 1..Len(children)}
    IN  [m \in kept \cup new |->
            IF m \in new
            THEN Node(NoNode, apply_action(m[Len(m)], ns[node].state), 0, 0)
            ELSE IF m = node THEN [ns[node] EXCEPT !.children = children]
            ELSE ns[m]]

\* expand whose children hold node.state instead of the state after the move
expand_same_state(ns, node) ==
    LET valid_actions == get_valid_actions(ns[node].state)
        children == [i \in 1..Len(valid_actions) |-> Append(node, valid_actions[i])]
        kept == {m \in DOMAIN ns : ~(IsPrefix(node, m) /\ m # node)}
        new == {children[i] : i \in 1..Len(children)}
    IN  [m \in kept \cup new |->
            IF m \in new
            THEN Node(node, ns[node].state, 0, 0)
            ELSE IF m = node THEN [ns[node] EXCEPT !.children = children]
            ELSE ns[m]]

\* expand(node) on the object graph ns: node.children is replaced by a list
\* of new Node objects, one per valid action; the objects the old list held
\* (and their subtrees) are no longer referenced.
expand(ns, node) ==
    LET valid_actions == get_valid_actions(ns[node].state)
        children == [i \in 1..Len(valid_actions) |-> Append(node, valid_actions[i])]
        kept == {m \in DOMAIN ns : ~(IsPrefix(node, m) /\ m # node)}
        new == {children[i] : i \in 1..Len(children)}
        ActionOf(m) == m[Len(m)]
    IN  [m \in kept \cup new |->
            IF m \in new
            THEN Node(node, apply_action(ActionOf(m), ns[node].state), 0, 0)
            ELSE IF m = node THEN [ns[node] EXCEPT !.children = children]
            ELSE ns[m]]

\* exploration_constant * sqrt(log(node.simulations) / child.simulations) of
\* line 69, with exploration_constant = sqrt(100) = 10, rounded to units of
\* 10^-8: row node.simulations = 1..16, column child.simulations = 1..16
ExplorationTable ==
    <<
      <<0, 0, 0, 0, 0, 0,
        0, 0, 0, 0, 0, 0,
        0, 0, 0, 0>>,
      <<832554611, 588705011, 480675629, 416277306, 372329741, 339888997,
        314676065, 294352506, 277518204, 263276885, 251024660, 240337814,
        230909103, 222509579, 214964676, 208138653>>,
      <<1048147074, 741151904, 605147995, 524073537, 468745622, 427904251,
        396162356, 370575952, 349382358, 331453208, 316028234, 302573998,
        290703694, 280129089, 270630411, 262036768>>,
      <<1177410023, 832554611, 679777993, 588705011, 526553770, 480675629,
        445019159, 416277306, 392470008, 372329741, 355002479, 339888997,
        326554785, 314676065, 304005961, 294352506>>,
      <<1268636241, 897061289, 732447475, 634318121, 567351375, 517918577,
        479499428, 448530644, 422878747, 401178004, 382508219, 366223738,
        351856386, 339057297, 327560469, 317159060>>,
      <<1338566199, 946509236, 772821555, 669283100, 598625003, 546467362,
        505930468, 473254618, 446188733, 423291799, 403592894, 386410778,
        371251467, 357746865, 345616306, 334641550>>,
      <<1394958834, 986384851, 805379858, 697479417, 623844556, 569489559,
        527244881, 493192426, 464986278, 441124716, 420595914, 402689929,
        386891970, 372818430, 360176822, 348739709>>,
      <<1442026887, 1019666990, 832554611, 721013443, 644894029, 588705011,
        545034932, 509833495, 480675629, 456008941, 434787465, 416277306,
        399946298, 385397897, 372329741, 360506722>>,
      <<1482303807, 1048147074, 855808502, 741151904, 662906415, 605147995,
        560258177, 524073537, 494101269, 468745622, 446931414, 427904251,
        411117106, 396162356, 382729197, 370575952>>,
      <<1517427129, 1072983013, 876086962, 758713565, 678614042, 619487031,
        573533545, 536491507, 505809043, 479852591, 457521494, 438043481,
        420858563, 405549459, 391798000, 379356782>>,
      <<1548513892, 1094964674, 894034912, 774256946, 692516465, 632178149,
        585283237, 547482337, 516171297, 489683089, 466894506, 447017456,
        429480480, 413857746, 399824568, 387128473>>,
      <<1576358668, 1114653904, 910111101, 788179334, 704969028, 643545731,
        595807573, 557326952, 525452889, 498488380, 475290021, 455055551,
        437203231, 421299575, 407014058, 394089667>>,
      <<1601545927, 1132463986, 924652972, 800772964, 716233113, 653828387,
        605327462, 566231993, 533848642, 506453291, 482884266, 462326486,
        444188920, 428031154, 413517380, 400386482>>,
      <<1624517568, 1148707389, 937915655, 812258784, 726506343, 663206520,
        614009927, 574353694, 541505856, 513717561, 489810476, 468957828,
        450560107, 434170583, 419448633, 406129392>>,
      <<1645615448, 1163625842, 950096522, 822807724, 735941601, 671819693,
        621984175, 581812921, 548538483, 520389297, 496171726, 475048261,
        456411606, 439809228, 424896081, 411403862>>,
      <<1665109222, 1177410023, 961351258, 832554611, 744659482, 679777993,
        629352130, 588705011, 555036407, 526553770, 502049320, 480675629,
        461818206, 445019159, 429929353, 416277306>>
    >>

\* float('inf'), in the unit of Key: above every finite key
Infinity == 2000000000

\* The key of select_child's max, in units of 10^-8:
\*   child.wins / child.simulations
\*     + exploration_constant * sqrt(log(node.simulations) / child.simulations)
\* and float('inf') when child.simulations is 0.  Two keys compare as the
\* floating-point keys of the code do for every node.simulations <= 16,
\* child.simulations <= 16 and wins <= simulations: keys that differ there
\* differ by more than 10^-6.  wins2 / (2 * s) is taken as quotient and
\* remainder to stay within 32-bit integers.
Key(ns, node, child) ==
    LET s == ns[child].simulations
    IN  IF s = 0 THEN Infinity
        ELSE (ns[child].wins2 \div (2 * s)) * 100000000
             + ((ns[child].wins2 % (2 * s)) * 50000000) \div s
             + ExplorationTable[ns[node].simulations][s]

\* max(node.children, key=...): the first child whose key is maximal
select_child(ns, node) ==
    LET children == ns[node].children
        best == CHOOSE i \in 1..Len(children) :
                    /\ \A j \in 1..Len(children) : Key(ns, node, children[j]) <= Key(ns, node, children[i])
                    /\ \A j \in 1..(i - 1) : Key(ns, node, children[j]) < Key(ns, node, children[i])
    IN  children[best]

\* all(child.simulations > 0 for child in node.children): line 80
AllSimulated(ns, node) ==
    \A i \in 1..Len(ns[node].children) : ns[ns[node].children[i]].simulations > 0

\* the descent whose line 83 takes the first child, simulated or not
RECURSIVE DescentPath_first_child(_, _)
DescentPath_first_child(ns, curr) ==
    LET children == ns[curr].children
    IN  IF ~Truthy(children) THEN <<curr>>
        ELSE IF AllSimulated(ns, curr)
        THEN IF ns[curr].simulations = 0 THEN <<curr, NoNode>>
             ELSE <<curr>> \o DescentPath_first_child(ns, select_child(ns, curr))
        ELSE <<curr, children[1]>>

\* The while loop of mcts (lines 78-84), from curr down: the values
\* curr_node takes, the last one the node the loop ends on.  select_child on
\* a node with simulations 0 raises ValueError (log(0)): the path then ends
\* with NoNode.
RECURSIVE DescentPath(_, _)
DescentPath(ns, curr) ==
    LET children == ns[curr].children
    IN  IF ~Truthy(children) THEN <<curr>>
        ELSE IF AllSimulated(ns, curr)
        THEN IF ns[curr].simulations = 0 THEN <<curr, NoNode>>
             ELSE <<curr>> \o DescentPath(ns, select_child(ns, curr))
        ELSE <<curr, children[CHOOSE i \in 1..Len(children) :
                                 /\ ns[children[i]].simulations = 0
                                 /\ \A j \in 1..(i - 1) : ns[children[j]].simulations # 0]>>

\* the node the while loop of mcts ends on, NoNode when select_child raised
Descend(ns, curr) ==
    LET path == DescentPath(ns, curr) IN path[Len(path)]

\* The calls of select_child in that loop: the node, its simulations and
\* those of its children at the call
Selections(ns, curr) ==
    LET path == DescentPath(ns, curr)
        Called(i) == i < Len(path) /\ Truthy(ns[path[i]].children) /\ AllSimulated(ns, path[i])
        Selection(node) ==
            [node |-> node, simulations |-> ns[node].simulations,
             children |-> [i \in 1..Len(ns[node].children) |->
                              ns[ns[node].children[i]].simulations]]
    IN  [i \in 1..Cardinality({i \in 1..Len(path) : Called(i)}) |-> Selection(path[i])]

\* A call of expand(node): the line of the call, the node, its simulations
\* and its children field at the call
Expansion(ns, node, line) ==
    [line |-> line, node |-> node, simulations |-> ns[node].simulations,
     children |-> ns[node].children]

\* line 86 with the expansion always made
ShouldExpand_always(ns, curr) == TRUE

\* line 86: the node the descent ended on is expanded
ShouldExpand(ns, curr) == ns[curr].simulations > 0

\* backpropagation that starts at node.parent instead of node
RECURSIVE Backpropagate_up(_, _, _)
Backpropagate_up(ns, node, result2) ==
    IF node = NoNode THEN ns
    ELSE Backpropagate_up(
            [ns EXCEPT ![node].simulations = @ + 1, ![node].wins2 = @ + result2],
            ns[node].parent, result2)

Backpropagate_from_parent(ns, node, result2) ==
    Backpropagate_up(ns, ns[node].parent, result2)

\* backpropagation that counts the simulation at the rolled-out node only
RECURSIVE Backpropagate_wins(_, _, _)
Backpropagate_wins(ns, node, result2) ==
    IF node = NoNode THEN ns
    ELSE Backpropagate_wins([ns EXCEPT ![node].wins2 = @ + result2], ns[node].parent, result2)

Backpropagate_count_at_node(ns, node, result2) ==
    Backpropagate_wins([ns EXCEPT ![node].simulations = @ + 1], node, result2)

\* backpropagation that scores each level for the other side
RECURSIVE Backpropagate_alternating(_, _, _)
Backpropagate_alternating(ns, node, result2) ==
    IF node = NoNode THEN ns
    ELSE Backpropagate_alternating(
            [ns EXCEPT ![node].simulations = @ + 1, ![node].wins2 = @ + result2],
            ns[node].parent, 2 - result2)

\* The backpropagation loop of random_rollout (lines 104-107); result2 is
\* twice result
RECURSIVE Backpropagate(_, _, _)
Backpropagate(ns, node, result2) ==
    IF node = NoNode THEN ns
    ELSE Backpropagate(
            [ns EXCEPT ![node].simulations = @ + 1, ![node].wins2 = @ + result2],
            ns[node].parent, result2)

\* result of random_rollout (line 102), doubled
Result2(winner, initial) ==
    IF winner = initial THEN 2 ELSE IF winner # NoTurn THEN 0 ELSE 1

\* a choice that takes the last of the children with the most simulations
best_action_last_max(ns, node) ==
    LET children == ns[node].children
        best == CHOOSE i \in 1..Len(children) :
                    /\ \A j \in 1..Len(children) : ns[children[j]].simulations <= ns[children[i]].simulations
                    /\ \A j \in (i + 1)..Len(children) : ns[children[j]].simulations < ns[children[i]].simulations
    IN  children[best]

\* max(node.children, key=lambda child: child.simulations)
best_action(ns, node) ==
    LET children == ns[node].children
        best == CHOOSE i \in 1..Len(children) :
                    /\ \A j \in 1..Len(children) : ns[children[j]].simulations <= ns[children[i]].simulations
                    /\ \A j \in 1..(i - 1) : ns[children[j]].simulations < ns[children[i]].simulations
    IN  children[best]

(***************************************************************************)
(* Bounds                                                                  *)
(***************************************************************************)

\* the largest max_steps mcts is called with
MaxSteps == 4

\* the number of times apply_action is called on the same arguments when
\* its effect on the argument's lists is followed
MaxCalls == 2

(***************************************************************************)
(* mcts: one action per iteration up to the call of random_rollout, one    *)
(* per playout move, one for the end of the playout with backpropagation   *)
(***************************************************************************)

\* The positions mcts and play_game are started on: the empty board of
\* __main__ and later positions of a game, none of them with a completed
\* line or a full board.
InitStates ==
    { [board |-> EmptyBoard, turn |-> TurnX],
      [board |-> <<<<1, 1, 0>>, <<0, 2, 0>>, <<0, 0, 2>>>>, turn |-> TurnX],
      [board |-> <<<<1, 2, 1>>, <<2, 1, 0>>, <<2, 0, 0>>>>, turn |-> TurnX],
      [board |-> <<<<2, 2, 0>>, <<1, 1, 2>>, <<0, 1, 0>>>>, turn |-> TurnX],
      [board |-> <<<<1, 2, 1>>, <<1, 2, 2>>, <<0, 1, 0>>>>, turn |-> TurnO],
      [board |-> <<<<1, 2, 1>>, <<1, 2, 2>>, <<2, 1, 0>>>>, turn |-> TurnX] }

NoCall ==
    /\ in_state = NoState
    /\ in_action = NoAction
    /\ call = ""
    /\ ret = <<>>
    /\ store = <<>>
    /\ in_ref = NoState
    /\ out_refs = <<>>

\* history of a step: what it did, on which node, the calls of select_child
\* and of expand it made, the number of moves the playout has made
StepWith(op, node, selected, expanded) ==
    [op |-> op, node |-> node, selected |-> selected, expanded |-> expanded, moves |-> 0]

Step(op, node) == StepWith(op, node, <<>>, <<>>)

\* __main__: a SearchTree whose root is a fresh Node, then mcts(tree, max_steps)
Init ==
    /\ \E s \in InitStates : nodes = (<<>> :> Node(NoNode, s, 0, 0))
    /\ root = <<>>
    /\ pc = "mcts"
    /\ steps = 0
    /\ max_steps \in 0..MaxSteps
    /\ curr_node = NoNode
    /\ rollout_state = NoState
    /\ initial_turn = NoTurn
    /\ current_state = NoState
    /\ play_action = NoAction
    /\ declared = ""
    /\ rollouts = (<<>> :> 0)
    /\ last = Step("init", <<>>)
    /\ NoCall

\* the history of rollouts follows the objects of ns
Follow(ns) == [m \in DOMAIN ns |-> IF m \in DOMAIN rollouts THEN rollouts[m] ELSE 0]

\* random_rollout(node) up to its playout loop (lines 93-94)
StartRollout(ns, node, selected, expanded) ==
    /\ nodes' = ns
    /\ rollouts' = Follow(ns)
    /\ curr_node' = node
    /\ rollout_state' = ns[node].state
    /\ initial_turn' = ns[node].state.turn
    /\ pc' = "rollout"
    /\ last' = StepWith("descend", node, selected, expanded)

\* select_child raised in the descent: mcts ends with the exception
Raise(ns, selected, expanded) ==
    /\ nodes' = ns
    /\ rollouts' = Follow(ns)
    /\ pc' = "fault"
    /\ last' = StepWith("raise", root, selected, expanded)
    /\ UNCHANGED <<curr_node, rollout_state, initial_turn>>

\* Lines 75-90 of one iteration of mcts's loop
Iterate ==
    /\ pc = "mcts"
    /\ steps < max_steps
    /\ LET first == ~Truthy(nodes[root].children)
           ns1 == IF first THEN expand(nodes, root) ELSE nodes
           exp1 == IF first THEN <<Expansion(nodes, root, 76)>> ELSE <<>>
           curr == Descend(ns1, root)
           sel == Selections(ns1, root)
       IN  IF curr = NoNode THEN Raise(ns1, sel, exp1)
           ELSE IF ShouldExpand(ns1, curr)
           THEN LET ns2 == expand(ns1, curr)
                    exp2 == Append(exp1, Expansion(ns1, curr, 87))
                    children == ns2[curr].children
                IN  IF Truthy(children)
                    THEN \E i \in 1..Len(children) : StartRollout(ns2, children[i], sel, exp2)
                    ELSE StartRollout(ns2, curr, sel, exp2)
           ELSE StartRollout(ns1, curr, sel, exp1)
    /\ UNCHANGED <<root, steps, max_steps, current_state, play_action, declared>>
    /\ UNCHANGED callVars

\* the playout has ended: line 97
Terminal(s) == check_win_conditions(s) # NoTurn \/ get_valid_actions(s) = <<>>

\* Lines 99-100: one random move of the playout
RolloutMove ==
    /\ pc = "rollout"
    /\ ~Terminal(rollout_state)
    /\ LET valid == get_valid_actions(rollout_state)
       IN  \E i \in 1..Len(valid) : rollout_state' = apply_action(valid[i], rollout_state)
    /\ last' = [Step("move", curr_node) EXCEPT !.moves = last.moves + 1]
    /\ UNCHANGED <<nodes, root, pc, steps, max_steps, curr_node, initial_turn,
                   current_state, play_action, declared, rollouts>>
    /\ UNCHANGED callVars

\* Lines 96-98 and 102-107: the playout ends and its result is propagated
RolloutEnd ==
    /\ pc = "rollout"
    /\ Terminal(rollout_state)
    /\ LET winner == check_win_conditions(rollout_state)
       IN  nodes' = Backpropagate(nodes, curr_node, Result2(winner, initial_turn))
    /\ rollouts' = [rollouts EXCEPT ![curr_node] = @ + 1]
    /\ steps' = steps + 1
    /\ pc' = "mcts"
    /\ curr_node' = NoNode
    /\ rollout_state' = NoState
    /\ initial_turn' = NoTurn
    /\ last' = Step("rollout", curr_node)
    /\ UNCHANGED <<root, max_steps, current_state, play_action, declared>>
    /\ UNCHANGED callVars

\* mcts returns and play_game(tree) starts: line 113
Return ==
    /\ pc = "mcts"
    /\ steps = max_steps
    /\ current_state' = nodes[root].state
    /\ pc' = "play"
    /\ last' = Step("return", root)
    /\ UNCHANGED <<nodes, root, steps, max_steps, curr_node, rollout_state,
                   initial_turn, play_action, declared, rollouts>>
    /\ UNCHANGED callVars

(***************************************************************************)
(* play_game: the choice of the move (lines 136-150), then the advance of  *)
(* the state and the tree with the terminal check (lines 152-172)          *)
(***************************************************************************)

\* Lines 140-147: the first cell, row by row, in which the two boards differ
DiffCell(board, other) ==
    LET differs == {i \in 1..Len(AllCells) : Cell(board, AllCells[i]) # Cell(other, AllCells[i])}
    IN  IF differs = {} THEN NoAction
        ELSE AllCells[CHOOSE i \in differs : \A j \in differs : i <= j]

\* Lines 136-148: the engine's move; max() of an empty list raises, and so
\* does line 148 when no cell differs and action was never assigned; when
\* no cell differs later in the game, action keeps its last value
AIChoose ==
    /\ pc = "play"
    /\ current_state.turn = TurnX
    /\ LET first == ~Truthy(nodes[root].children)
           ns1 == IF first THEN expand(nodes, root) ELSE nodes
       IN  /\ nodes' = ns1
           /\ rollouts' = Follow(ns1)
           /\ last' = StepWith("choose", root, <<>>,
                               IF first THEN <<Expansion(nodes, root, 138)>> ELSE <<>>)
           /\ IF ns1[root].children = <<>>
              THEN pc' = "error" /\ UNCHANGED play_action
              ELSE LET best_child == best_action(ns1, root)
                       found == DiffCell(ns1[root].state.board, ns1[best_child].state.board)
                   IN  IF found = NoAction /\ play_action = NoAction
                       THEN pc' = "error" /\ UNCHANGED play_action
                       ELSE /\ play_action' = IF found = NoAction THEN play_action ELSE found
                            /\ pc' = "advance"
    /\ UNCHANGED <<root, steps, max_steps, curr_node, rollout_state, initial_turn,
                   current_state, declared>>
    /\ UNCHANGED callVars

\* Line 150, get_human_action (lines 122-131): any empty cell of the board
HumanChoose ==
    /\ pc = "play"
    /\ current_state.turn # TurnX
    /\ \E x \in Range3, y \in Range3 :
          /\ Cell(current_state.board, <<x, y>>) = 0
          /\ play_action' = <<x, y>>
    /\ pc' = "advance"
    /\ last' = Step("input", root)
    /\ UNCHANGED <<nodes, root, steps, max_steps, curr_node, rollout_state,
                   initial_turn, current_state, declared, rollouts>>
    /\ UNCHANGED callVars

\* The objects reachable from node once its parent link is cleared
Subtree(ns, node) ==
    [m \in {m \in DOMAIN ns : IsPrefix(node, m)} |->
        IF m = node THEN [ns[m] EXCEPT !.parent = NoNode] ELSE ns[m]]

\* an advance that always starts a fresh root
advance_root_fresh(ns, r, new_state, a) ==
    [root |-> Append(r, a), nodes |-> (Append(r, a) :> Node(NoNode, new_state, 0, 0)),
     matched |-> FALSE]

\* Lines 154-162: the new tree.root for the position new_state reached by
\* action a, with the objects reachable from it
advance_root(ns, r, new_state, a) ==
    LET children == ns[r].children
        fresh == Append(r, a)
        matching == IF Truthy(children)
                    THEN {i \in 1..Len(children) : ns[children[i]].state.board = new_state.board}
                    ELSE {}
    IN  IF matching # {}
        THEN LET child == children[CHOOSE i \in matching : \A j \in matching : i <= j]
             IN  [root |-> child, nodes |-> Subtree(ns, child), matched |-> TRUE]
        ELSE [root |-> fresh, nodes |-> (fresh :> Node(NoNode, new_state, 0, 0)),
              matched |-> FALSE]

\* the terminal check without its draw branch
Verdict_without_draw(s) ==
    LET winner == check_win_conditions(s)
    IN  IF winner # NoTurn
        THEN IF winner = TurnO THEN "You win!" ELSE "AI wins!"
        ELSE ""

\* Lines 164-172: what play_game prints when it leaves its loop, "" when it
\* goes on
Verdict(s) ==
    LET winner == check_win_conditions(s)
    IN  IF winner # NoTurn
        THEN IF winner = TurnO THEN "You win!" ELSE "AI wins!"
        ELSE IF get_valid_actions(s) = <<>> THEN "It's a draw!" ELSE ""

\* Lines 152-172
Advance ==
    /\ pc = "advance"
    /\ LET new_state == apply_action(play_action, current_state)
           adv == advance_root(nodes, root, new_state, play_action)
       IN  /\ current_state' = new_state
           /\ root' = adv.root
           /\ nodes' = adv.nodes
           /\ rollouts' = [m \in DOMAIN adv.nodes |-> IF adv.matched THEN rollouts[m] ELSE 0]
           /\ declared' = Verdict(new_state)
           /\ pc' = IF Verdict(new_state) = "" THEN "play" ELSE "done"
           /\ last' = Step(IF adv.matched THEN "advance to child" ELSE "advance to fresh", root)
    /\ UNCHANGED <<steps, max_steps, curr_node, rollout_state, initial_turn, play_action>>
    /\ UNCHANGED callVars

Next ==
    \/ Iterate
    \/ RolloutMove
    \/ RolloutEnd
    \/ Return
    \/ AIChoose
    \/ HumanChoose
    \/ Advance

Spec == Init /\ [][Next]_vars

\* mcts has not returned
MctsRunning == pc \in {"mcts", "rollout"}

\* the states in which Iterate is enabled: the guard of the for loop
IterateEnabled == pc = "mcts" /\ steps < max_steps

\* mcts is a sequential loop: while it has not returned, its next step is
\* taken. Weak fairness of each step of mcts; that of Iterate,
\* WF_vars(Iterate), is written with its enabledness spelled out.
FairSpec ==
    /\ Spec
    /\ ([]<>(~IterateEnabled) \/ []<><<Iterate>>_vars)
    /\ WF_vars(RolloutMove)
    /\ WF_vars(RolloutEnd)
    /\ WF_vars(Return)

(***************************************************************************)
(* The functions of the game state model called in isolation, on every     *)
(* position a tree node can hold                                           *)
(***************************************************************************)

Marks(board, v) == Cardinality({i \in 1..Len(AllCells) : Cell(board, AllCells[i]) = v})

Triples == {<<a, b, c>> : a \in 0..2, b \in 0..2, c \in 0..2}

\* The positions reached from the empty board with Turn.x to move by
\* alternating moves on empty cells: expand and the playouts go on past a
\* completed line, so every such position is held by some node.
Positions ==
    {s \in [board : Triples \X Triples \X Triples, turn : {TurnX, TurnO}] :
        Marks(s.board, TurnX) - Marks(s.board, TurnO) = (IF s.turn = TurnX THEN 0 ELSE 1)}

\* apply_action with new_board = state.board[:], the rows shared
apply_action_shallow_copy(a, ref, st) ==
    LET x == a[1]
        y == a[2]
        st1 == st \o <<st[ref.board]>>
        new_board == Len(st1)
        st2 == [st1 EXCEPT ![st1[new_board][x + 1]][y + 1] = ref.turn]
        new_turn == IF ref.turn = TurnX THEN TurnO ELSE TurnX
    IN  [store |-> st2, state |-> [board |-> new_board, turn |-> new_turn]]

\* apply_action on Python's objects: st is the store of list objects, a
\* list's address its index in st; the board of the State ref is the address
\* of the list of the addresses of its rows.  Returns the new store and the
\* new State.
apply_action_by_reference(a, ref, st) ==
    LET x == a[1]
        y == a[2]
        rows == st[ref.board]
        \* [row[:] for row in state.board]: three new rows, one new outer list
        copies == [i \in 1..Len(rows) |-> st[rows[i]]]
        outer == [i \in 1..Len(rows) |-> Len(st) + i]
        st1 == (st \o copies) \o <<outer>>
        new_board == Len(st1)
        \* new_board[x][y] = state.turn.value
        st2 == [st1 EXCEPT ![st1[new_board][x + 1]][y + 1] = ref.turn]
        new_turn == IF ref.turn = TurnX THEN TurnO ELSE TurnX
    IN  [store |-> st2, state |-> [board |-> new_board, turn |-> new_turn]]

\* The State value a reference stands for
Deref(st, ref) ==
    [board |-> [i \in 1..Len(st[ref.board]) |-> st[st[ref.board][i]]], turn |-> ref.turn]

NoTree ==
    /\ nodes = <<>>
    /\ root = <<>>
    /\ pc = "call"
    /\ steps = 0
    /\ max_steps = 0
    /\ curr_node = NoNode
    /\ rollout_state = NoState
    /\ initial_turn = NoTurn
    /\ current_state = NoState
    /\ play_action = NoAction
    /\ declared = ""
    /\ rollouts = <<>>
    /\ last = Step("init", <<>>)

CallInit ==
    /\ NoTree
    /\ in_state \in Positions
    /\ in_action = NoAction
    /\ call = ""
    /\ ret = <<>>
    /\ store = <<in_state.board[1], in_state.board[2], in_state.board[3], <<1, 2, 3>>>>
    /\ in_ref = [board |-> 4, turn |-> in_state.turn]
    /\ out_refs = <<>>

CallGetValidActions ==
    /\ call = ""
    /\ call' = "get_valid_actions"
    /\ ret' = get_valid_actions(in_state)
    /\ UNCHANGED <<in_state, in_action, store, in_ref, out_refs>>
    /\ UNCHANGED treeVars

\* apply_action on one of the moves get_valid_actions returns
CallApplyAction ==
    /\ call = ""
    /\ call' = "apply_action"
    /\ LET valid == get_valid_actions(in_state)
       IN  \E i \in 1..Len(valid) :
              /\ in_action' = valid[i]
              /\ ret' = apply_action(valid[i], in_state)
    /\ UNCHANGED <<in_state, store, in_ref, out_refs>>
    /\ UNCHANGED treeVars

CallCheckWinConditions ==
    /\ call = ""
    /\ call' = "check_win_conditions"
    /\ ret' = check_win_conditions(in_state)
    /\ UNCHANGED <<in_state, in_action, store, in_ref, out_refs>>
    /\ UNCHANGED treeVars

\* expand on a Node holding in_state; ret is the object graph afterwards
CallExpand ==
    /\ call = ""
    /\ call' = "expand"
    /\ ret' = expand((<<>> :> Node(NoNode, in_state, 0, 0)), <<>>)
    /\ UNCHANGED <<in_state, in_action, store, in_ref, out_refs>>
    /\ UNCHANGED treeVars

\* apply_action(in_action, in_ref), called up to MaxCalls times on the same
\* arguments, its effect on the store followed
CallApplyActionByReference ==
    /\ call \in {"", "apply_action by reference"}
    /\ Len(out_refs) < MaxCalls
    /\ call' = "apply_action by reference"
    /\ LET valid == get_valid_actions(in_state)
       IN  \E i \in 1..Len(valid) :
              /\ call = "" \/ valid[i] = in_action
              /\ in_action' = valid[i]
              /\ LET r == apply_action_by_reference(valid[i], in_ref, store)
                 IN  /\ store' = r.store
                     /\ out_refs' = Append(out_refs, r.state)
    /\ UNCHANGED <<in_state, ret, in_ref>>
    /\ UNCHANGED treeVars

\* the coordinates a caller may pass: in range, negative, too large
AnyIndex == -1..3

\* apply_action on any pair of integers, with Python's list indexing: an
\* index in -3..-1 counts from the end of the list, any other index outside
\* 0..2 raises IndexError (after the copy of the board: nothing is written)
apply_action_unchecked(action, state) ==
    LET Index(i) == IF i \in 0..2 THEN i + 1 ELSE IF i \in -3..-1 THEN i + 4 ELSE 0
        x == Index(action[1])
        y == Index(action[2])
    IN  IF x = 0 \/ y = 0 THEN [error |-> "IndexError"]
        ELSE apply_action(<<x - 1, y - 1>>, state)

\* apply_action on a cell the caller did not validate
CallApplyActionAnyCell ==
    /\ call = ""
    /\ call' = "apply_action on any cell"
    /\ \E x \in AnyIndex, y \in AnyIndex :
          /\ in_action' = <<x, y>>
          /\ ret' = apply_action_unchecked(<<x, y>>, in_state)
    /\ UNCHANGED <<in_state, store, in_ref, out_refs>>
    /\ UNCHANGED treeVars

CallNext ==
    \/ CallGetValidActions
    \/ CallApplyAction
    \/ CallCheckWinConditions
    \/ CallExpand
    \/ CallApplyActionByReference
    \/ CallApplyActionAnyCell

CallSpec == CallInit /\ [][CallNext]_vars

(***************************************************************************)
(* Properties                                                              *)
(***************************************************************************)

\* The 8 lines of the board as sets of cells
LineCells ==
    {{<<x, y>> : y \in Range3} : x \in Range3}
    \cup {{<<x, y>> : x \in Range3} : y \in Range3}
    \cup {{<<i, i>> : i \in Range3}, {<<i, 2 - i>> : i \in Range3}}

\* side v holds all three cells of line L
Holds(board, v, L) == \A c \in L : Cell(board, c) = v

ThreeInLine(board, v) == \E L \in LineCells : Holds(board, v, L)

EmptyCells(board) == {c \in Range3 \X Range3 : Cell(board, c) = 0}

\* position of a cell in row-major order
RowMajor(c) == 3 * c[1] + c[2]

\* the game being played started on the empty board: every mark on the board
\* was put there by one of the Len(root) moves play_game applied
FromEmptyBoard ==
    Marks(current_state.board, TurnX) + Marks(current_state.board, TurnO) = Len(root)

InGame == pc \in {"play", "advance", "done", "error"}

\* C1: when the side to move plays a move that completes a line of three of
\* its own marks, check_win_conditions on the state apply_action returns
\* reports that side as the winner.
C1_WinningMoveReported ==
    (/\ call = "apply_action"
     /\ \E L \in LineCells : in_action \in L /\ Holds(ret.board, in_state.turn, L))
    => check_win_conditions(ret) = in_state.turn

\* C2: check_win_conditions reports a side that owns a completed line
\* whenever one of the 8 lines holds three equal marks, and None when no
\* line is completed.
C2_EveryLineDetected ==
    call = "check_win_conditions" =>
        IF ThreeInLine(in_state.board, TurnX) \/ ThreeInLine(in_state.board, TurnO)
        THEN ret # NoTurn /\ ThreeInLine(in_state.board, ret)
        ELSE ret = NoTurn

\* C3: in a game played from the empty board, play_game asks for or applies
\* no move on a board that holds a completed line, and it declares a draw
\* only on a full board on which neither side has three in a line.
C3_LoopStopsOnCompletedLine ==
    (InGame /\ FromEmptyBoard) =>
        /\ pc \in {"play", "advance"} =>
              ~(ThreeInLine(current_state.board, TurnX) \/ ThreeInLine(current_state.board, TurnO))
        /\ declared = "It's a draw!" =>
              /\ EmptyCells(current_state.board) = {}
              /\ ~(ThreeInLine(current_state.board, TurnX) \/ ThreeInLine(current_state.board, TurnO))

\* C4: a game played from the empty board, after any number of iterations
\* of mcts, never applies more than 9 moves, has ended once 9 are applied,
\* ends only with a win or a draw declared, and until then always has a
\* next step: at the head of the loop the engine moves or the board has an
\* empty cell for the other side, and the move to apply is on an empty cell.
C4_GameEndsWithinNinePlies ==
    (InGame /\ FromEmptyBoard) =>
        /\ Len(root) <= 9
        /\ Len(root) = 9 => pc = "done"
        /\ pc # "error"
        /\ pc = "done" => declared \in {"AI wins!", "You win!", "It's a draw!"}
        /\ pc # "done" => declared = ""
        /\ pc = "play" => current_state.turn = TurnX \/ EmptyCells(current_state.board) # {}
        /\ pc = "advance" => play_action \in EmptyCells(current_state.board)

\* a game from the empty board, after MaxSteps iterations, that ended only
\* with the ninth move
C4_Witness ==
    /\ pc = "done"
    /\ FromEmptyBoard
    /\ Len(root) = 9
    /\ max_steps >= 3

\* C5: while mcts runs on a fresh root, the root's simulations is the number
\* of iterations completed, and when mcts returns it is max_steps.
C5_RootSimulationsCountIterations ==
    /\ pc \in {"mcts", "rollout"} => nodes[root].simulations = steps
    /\ last.op = "return" => nodes[root].simulations = max_steps

C5_Witness ==
    /\ last.op = "return"
    /\ max_steps >= 3
    /\ nodes[root].simulations = max_steps
    /\ \E m \in DOMAIN nodes : Len(m) = 2 /\ nodes[m].simulations > 0

RECURSIVE SumOver(_, _)
SumOver(f, S) ==
    IF S = {} THEN 0
    ELSE LET m == CHOOSE m \in S : TRUE IN f[m] + SumOver(f, S \ {m})

ChildSimulations(n) ==
    IF nodes[n].children = NoChildren THEN 0
    ELSE LET children == nodes[n].children
             sims == [i \in 1..Len(children) |-> nodes[children[i]].simulations]
         IN  SumOver(sims, 1..Len(children))

\* C6: at every iteration boundary of mcts, each node's simulations is the
\* number of rollouts started at the node or below it, and is the sum of its
\* children's simulations plus the number of rollouts started at the node.
C6_SimulationsCountRollouts ==
    pc = "mcts" =>
        \A n \in DOMAIN nodes :
            /\ nodes[n].simulations = SumOver(rollouts, {m \in DOMAIN nodes : IsPrefix(n, m)})
            /\ nodes[n].simulations = ChildSimulations(n) + rollouts[n]

\* a node below the root with a rollout of its own and one through a child
C6_Witness ==
    /\ pc = "mcts"
    /\ \E n \in DOMAIN nodes :
          /\ n # root
          /\ rollouts[n] = 1
          /\ ChildSimulations(n) >= 1
          /\ nodes[n].simulations = 1 + ChildSimulations(n)

\* C7: expand(node) leaves node.children with one Node per legal move, in
\* row-major order of the moves, each holding the state the move leads to,
\* simulations 0, wins 0, children unset and parent node; the list is empty
\* exactly when the board is full.
C7_ExpandCreatesOneChildPerMove ==
    call = "expand" =>
        LET children == ret[<<>>].children
            moves == get_valid_actions(in_state)
        IN  /\ Len(children) = Cardinality(EmptyCells(in_state.board))
            /\ Len(children) = Len(moves)
            /\ \A i \in 1..Len(children) :
                  /\ children[i] \in DOMAIN ret
                  /\ ret[children[i]].state = apply_action(moves[i], in_state)
                  /\ Cell(in_state.board, moves[i]) = 0
                  /\ ret[children[i]].simulations = 0
                  /\ ret[children[i]].wins2 = 0
                  /\ ret[children[i]].children = NoChildren
                  /\ ret[children[i]].parent = <<>>
                  /\ \A j \in 1..(i - 1) : RowMajor(moves[j]) < RowMajor(moves[i])
            /\ \A i, j \in 1..Len(children) : i # j => children[i] # children[j]
            /\ DOMAIN ret = {<<>>} \cup {children[i] : i \in 1..Len(children)}
            /\ children = <<>> <=> EmptyCells(in_state.board) = {}

C7_Witness ==
    /\ call = "expand"
    /\ Len(ret[<<>>].children) = 4
    /\ ThreeInLine(in_state.board, TurnX)

C7_WitnessFullBoard ==
    /\ call = "expand"
    /\ ret[<<>>].children = <<>>

\* C8: the advance of the tree by the move played: when the root has a child
\* whose board is the resulting board, that child becomes the root, its
\* parent link cleared, its simulations, wins, state, children and the whole
\* subtree below it as they were; otherwise the root becomes a fresh Node
\* for the resulting state with no simulations, no wins and no children.
C8_AdvanceKeepsSubtree ==
    [][pc = "advance" =>
        LET resulting == apply_action(play_action, current_state)
            children == nodes[root].children
            matching == IF Truthy(children)
                        THEN {children[i] : i \in {i \in 1..Len(children) :
                                  nodes[children[i]].state.board = resulting.board}}
                        ELSE {}
        IN  /\ nodes'[root'].parent = NoNode
            /\ nodes'[root'].state = resulting
            /\ IF matching # {}
               THEN /\ root' \in matching
                    /\ nodes'[root'].simulations = nodes[root'].simulations
                    /\ nodes'[root'].wins2 = nodes[root'].wins2
                    /\ nodes'[root'].children = nodes[root'].children
                    /\ DOMAIN nodes' = {m \in DOMAIN nodes : IsPrefix(root', m)}
                    /\ \A m \in DOMAIN nodes' : m # root' => nodes'[m] = nodes[m]
               ELSE /\ DOMAIN nodes' = {root'}
                    /\ nodes'[root'].simulations = 0
                    /\ nodes'[root'].wins2 = 0
                    /\ nodes'[root'].children = NoChildren
    ]_vars

\* the root is a former child that came with simulations and a subtree
C8_Witness ==
    /\ last.op = "advance to child"
    /\ nodes[root].parent = NoNode
    /\ nodes[root].simulations >= 2
    /\ Truthy(nodes[root].children)
    /\ \E m \in DOMAIN nodes : m # root /\ nodes[m].simulations > 0

\* C9: apply_action leaves the board and the turn of its argument as they
\* were, returns a State that shares no list with the argument, and called
\* again on the same arguments returns an equal State.
C9_ApplyActionIsPure ==
    call = "apply_action by reference" =>
        /\ Deref(store, in_ref) = in_state
        /\ \A i \in 1..Len(out_refs) :
              LET out == out_refs[i]
                  Lists(r) == {r.board} \cup {store[r.board][k] : k \in 1..3}
              IN  /\ Lists(out) \cap Lists(in_ref) = {}
                  /\ Deref(store, out) = apply_action(in_action, in_state)
                  /\ \A j \in 1..Len(out_refs) : Deref(store, out) = Deref(store, out_refs[j])

C9_Witness ==
    /\ call = "apply_action by reference"
    /\ Len(out_refs) = 2
    /\ Deref(store, out_refs[1]) # in_state
    /\ Marks(in_state.board, TurnX) >= 2

\* C10: get_valid_actions returns exactly the cells that are empty, in
\* row-major order, none exactly when the board is full, and one fewer after
\* apply_action of any of them.
C10_ValidActionsAreTheEmptyCells ==
    /\ call = "get_valid_actions" =>
          /\ {ret[i] : i \in 1..Len(ret)} = EmptyCells(in_state.board)
          /\ \A i, j \in 1..Len(ret) : i < j => RowMajor(ret[i]) < RowMajor(ret[j])
          /\ ret = <<>> <=> \A c \in Range3 \X Range3 : Cell(in_state.board, c) # 0
    /\ call = "apply_action" =>
          /\ Cell(in_state.board, in_action) = 0
          /\ Len(get_valid_actions(ret)) = Len(get_valid_actions(in_state)) - 1
          /\ {get_valid_actions(ret)[i] : i \in 1..Len(get_valid_actions(ret))}
                = EmptyCells(in_state.board) \ {in_action}

C10_Witness ==
    /\ call = "apply_action"
    /\ Len(get_valid_actions(in_state)) = 5
    /\ Len(get_valid_actions(ret)) = 4

\* C11: apply_action on a cell that is occupied, or on coordinates outside
\* 0..2, is rejected with an error: no State is returned, and an occupied
\* cell is never overwritten.
C11_InvalidMoveRejected ==
    (/\ call = "apply_action on any cell"
     /\ \/ in_action \notin Range3 \X Range3
        \/ Cell(in_state.board, in_action) # 0)
    => "error" \in DOMAIN ret

InSearch == last.op \in {"descend", "raise"}

\* C12: select_child never raises in mcts: every node it is called on has
\* simulations >= 1 (no logarithm of zero) and children that all have
\* simulations > 0 (no division by zero).
C12_SelectionNeverFaults ==
    /\ pc # "fault"
    /\ \A i \in 1..Len(last.selected) :
          /\ last.selected[i].simulations >= 1
          /\ Len(last.selected[i].children) >= 1
          /\ \A k \in 1..Len(last.selected[i].children) : last.selected[i].children[k] > 0

\* an iteration that called select_child on a node with several children
C12_Witness ==
    /\ last.op = "descend"
    /\ Len(last.selected) >= 1
    /\ Len(last.selected[1].children) >= 2
    /\ last.selected[1].simulations >= 2

\* C14: expand is never applied to a node that has a non-empty list of
\* children.
C14_NoReExpansion ==
    \A i \in 1..Len(last.expanded) : ~Truthy(last.expanded[i].children)

\* an iteration that expanded a visited node below the root
C14_Witness ==
    /\ last.op = "descend"
    /\ \E i \in 1..Len(last.expanded) :
          /\ last.expanded[i].node # root
          /\ last.expanded[i].simulations > 0
          /\ Truthy(nodes[last.expanded[i].node].children)

\* C15 as claimed: whenever mcts applies expand to a node, the node has
\* simulations > 0.
C15_ExpandedOnlyAfterFirstVisit ==
    InSearch => \A i \in 1..Len(last.expanded) : last.expanded[i].simulations > 0

\* C15, amended: whenever mcts applies expand to a node other than the root,
\* the node has simulations > 0: line 87 expands the node the descent ended
\* on only when it was visited before, and line 76 expands only the root.
C15_ExpandedAfterFirstVisitBelowRoot ==
    InSearch =>
        \A i \in 1..Len(last.expanded) :
            /\ last.expanded[i].node # root => last.expanded[i].simulations > 0
            /\ last.expanded[i].line = 87 => last.expanded[i].simulations > 0
            /\ last.expanded[i].line = 76 => last.expanded[i].node = root

\* an iteration that expanded the unvisited root, one that expanded a
\* visited node below it
C15_Witness ==
    /\ last.op = "descend"
    /\ \E i \in 1..Len(last.expanded) :
          /\ last.expanded[i].line = 87
          /\ last.expanded[i].node # root
          /\ last.expanded[i].simulations = 1

\* the cells in which two boards differ
DifferingCells(board, other) ==
    {c \in Range3 \X Range3 : Cell(board, c) # Cell(other, c)}

\* C13: the engine's move is the single cell in which the board of the
\* root's child with the most simulations, the first such child in the
\* order of the children, differs from the root's board; choosing it
\* changes no node's simulations or wins, and adds nodes only by expanding
\* a root that has no children.
C13_MoveIsFirstMostSimulatedChild ==
    [][(pc = "play" /\ current_state.turn = TurnX /\ pc' = "advance") =>
        /\ \E i \in 1..Len(nodes'[root].children) :
              LET children == nodes'[root].children
              IN  /\ DifferingCells(nodes'[root].state.board, nodes'[children[i]].state.board)
                        = {play_action'}
                  /\ \A j \in 1..Len(children) :
                        nodes'[children[j]].simulations <= nodes'[children[i]].simulations
                  /\ \A j \in 1..(i - 1) :
                        nodes'[children[j]].simulations < nodes'[children[i]].simulations
        /\ \A m \in DOMAIN nodes :
              /\ m \in DOMAIN nodes'
              /\ nodes'[m].simulations = nodes[m].simulations
              /\ nodes'[m].wins2 = nodes[m].wins2
        /\ \A m \in DOMAIN nodes' \ DOMAIN nodes :
              /\ ~Truthy(nodes[root].children)
              /\ nodes'[m].parent = root
              /\ nodes'[m].simulations = 0
              /\ nodes'[m].wins2 = 0
        /\ root' = root]_vars

\* the engine has chosen, on a root the search has expanded, a move that is
\* not the first valid one
C13_Witness ==
    /\ pc = "advance"
    /\ last.op = "choose"
    /\ last.expanded = <<>>
    /\ nodes[root].simulations >= 2
    /\ play_action # get_valid_actions(current_state)[1]

\* the score, doubled, that the end of a playout adds to the rolled-out node
Scored == nodes'[curr_node].wins2 - nodes[curr_node].wins2

\* C16: a playout ends on a completed line or a full board and is scored
\* for the side to move at the rolled-out node: 1 if that side has the
\* completed line, 0 if the opponent has it, 0.5 exactly when the board is
\* full with no completed line.
C16_RolloutScoresOutcome ==
    [][(pc = "rollout" /\ pc' = "mcts") =>
        LET board == rollout_state.board
            opponent == IF initial_turn = TurnX THEN TurnO ELSE TurnX
            drawn == /\ EmptyCells(board) = {}
                     /\ ~ThreeInLine(board, TurnX)
                     /\ ~ThreeInLine(board, TurnO)
        IN  /\ Scored = 1 <=> drawn
            /\ Scored = 2 => ThreeInLine(board, initial_turn)
            /\ Scored = 0 => ThreeInLine(board, opponent)]_vars

\* C17: the end of a playout adds 1 to simulations and one and the same
\* score to wins at the rolled-out node and each of its ancestors up to the
\* root, and changes no other node.
C17_BackpropagationOnParentChain ==
    [][(pc = "rollout" /\ pc' = "mcts") =>
        /\ DOMAIN nodes' = DOMAIN nodes
        /\ IsPrefix(root, curr_node)
        /\ \E score2 \in {0, 1, 2} :
              \A m \in DOMAIN nodes :
                  IF IsPrefix(m, curr_node)
                  THEN nodes'[m] = [nodes[m] EXCEPT !.simulations = @ + 1, !.wins2 = @ + score2]
                  ELSE nodes'[m] = nodes[m]]_vars

\* a playout of a grandchild of the root was scored 0 or 1 and propagated,
\* with simulated nodes off its parent chain
C17_Witness ==
    /\ last.op = "rollout"
    /\ Len(last.node) = 2
    /\ nodes[last.node].simulations = 1
    /\ nodes[last.node].wins2 \in {0, 2}
    /\ \E m \in DOMAIN nodes : ~IsPrefix(m, last.node) /\ nodes[m].simulations > 0

\* C18: mcts with a finite budget returns; the node an iteration rolls out
\* is at most as many levels below the root as the root's board has empty
\* cells (at most 9), a playout makes at most as many moves as the
\* rolled-out state has empty cells, and every parent chain leads through
\* shorter and shorter paths to a node with no parent.
C18_MctsTerminates ==
    /\ [](pc = "rollout" =>
            /\ Len(curr_node) - Len(root) <= Cardinality(EmptyCells(nodes[root].state.board))
            /\ Len(curr_node) - Len(root) <= 9
            /\ Len(last.selected) <= 9
            /\ last.moves <= Cardinality(EmptyCells(nodes[curr_node].state.board)))
    /\ [](\A m \in DOMAIN nodes :
            nodes[m].parent # NoNode =>
                /\ nodes[m].parent \in DOMAIN nodes
                /\ Len(nodes[m].parent) < Len(m))
    /\ <>(~MctsRunning)

\* mcts has returned after MaxSteps iterations with a tree two levels deep
C18_Witness ==
    /\ last.op = "return"
    /\ steps = MaxSteps
    /\ \E m \in DOMAIN nodes : Len(m) >= 2

\* a playout that made as many moves as the rolled-out state has empty cells
C18_WitnessLongestPlayout ==
    /\ pc = "rollout"
    /\ last.op = "move"
    /\ last.moves = Cardinality(EmptyCells(nodes[curr_node].state.board))
    /\ last.moves >= 5

\* as many X marks as O marks with X to move, one more with O to move
Balanced(s) ==
    /\ s.turn \in {TurnX, TurnO}
    /\ Marks(s.board, TurnX) = Marks(s.board, TurnO) + (IF s.turn = TurnO THEN 1 ELSE 0)

\* state t is state s after one move: the turn has passed, one empty cell
\* has received the mover's mark, every other cell is as it was
OneMoveLater(s, t) ==
    LET changed == DifferingCells(s.board, t.board)
    IN  /\ t.turn # s.turn
        /\ Cardinality(changed) = 1
        /\ \A c \in changed : Cell(s.board, c) = 0 /\ Cell(t.board, c) = s.turn

\* C19: every state of a tree node, of a playout and of the game is
\* balanced (as many X marks as O marks with X to move, one more X mark
\* with O to move), and every move applied by expansion, by a playout or by
\* the game loop passes the turn and changes one empty cell only.
C19_TurnsAlternateMarksBalanced ==
    /\ [](/\ \A m \in DOMAIN nodes :
                /\ Balanced(nodes[m].state)
                /\ nodes[m].parent # NoNode =>
                       OneMoveLater(nodes[nodes[m].parent].state, nodes[m].state)
          /\ pc = "rollout" => Balanced(rollout_state)
          /\ InGame => Balanced(current_state))
    /\ [][/\ (pc = "rollout" /\ pc' = "rollout") => OneMoveLater(rollout_state, rollout_state')
          /\ pc = "advance" => OneMoveLater(current_state, current_state')]_vars

\* a playout of a child of the empty board's root, four moves on
C19_Witness ==
    /\ pc = "rollout"
    /\ nodes[root].state.board = EmptyBoard
    /\ Len(curr_node) >= 1
    /\ last.moves >= 4
    /\ rollout_state.turn = TurnX

\* C20: every node has 0 <= wins <= simulations; wins is kept doubled, as
\* the integer wins2, which every playout increases by 0, 1 or 2.
C20_WinsWithinSimulations ==
    /\ [](\A m \in DOMAIN nodes :
             /\ nodes[m].simulations \in Nat
             /\ nodes[m].wins2 \in Nat
             /\ nodes[m].wins2 <= 2 * nodes[m].simulations)
    /\ [][\A m \in DOMAIN nodes \cap DOMAIN nodes' :
             \/ /\ nodes'[m].simulations = nodes[m].simulations
                /\ nodes'[m].wins2 = nodes[m].wins2
             \/ /\ nodes'[m].simulations = nodes[m].simulations + 1
                /\ nodes'[m].wins2 - nodes[m].wins2 \in {0, 1, 2}]_vars

\* after a root advance onto a searched child: the new root has a drawn
\* playout and otherwise wins only, and a child with a playout of its own
C20_Witness ==
    /\ last.op = "advance to child"
    /\ nodes[root].simulations >= 2
    /\ nodes[root].wins2 = 2 * nodes[root].simulations - 1
    /\ \E m \in DOMAIN nodes : m # root /\ nodes[m].simulations >= 1

====
